---- MODULE Spec2Model ----
(***************************************************************************)
(* State-machine model of src/src/ui/App.tsx (tula-web): the public map    *)
(* explorer (PublicExplorer) and the administrative surface                *)
(* (SuperAdminView), each with the React effects that follow a state       *)
(* change folded into the action that causes the change.                   *)
(*                                                                         *)
(* Conventions                                                             *)
(*   - a JavaScript string is a sequence of one-character strings, so that *)
(*     trim(), toLowerCase() and includes() are computed, not assumed;     *)
(*   - a nullable value is a sequence of length 0 (null/undefined) or 1;   *)
(*   - a coordinate is "absent" (null/undefined: typeof is not 'number'),  *)
(*     "NaN" (typeof is 'number', not finite) or a finite number, written  *)
(*     as its decimal text;                                                *)
(*   - a gateway call in flight is a record held until its continuation    *)
(*     (the code after the await) runs with the outcome of the call.       *)
(***************************************************************************)
EXTENDS Integers, Sequences, FiniteSets, Bags, TLC

VARIABLES
    route,            \* App: 'public' | 'super-admin'
    \* ---- PublicExplorer ----
    artisans,         \* useState<Item[]>
    pubPlaces,        \* useState<Item[]> (places of the public view)
    q,                \* search text
    selectedItem,     \* null or Item & {kind}
    error,            \* null or the warning text
    mapInstance,      \* mapInstance.current: null or the live map
    camera,           \* what the map shows: center and zoom
    flyTos,           \* the flyTo() calls the last handler or effect pass of the view made
    publicMarkers,    \* (map as any)._publicMarkers: undefined or Marker[]
    cleanupMarkers,   \* the `markers` array the marker effect's cleanup closes over
    markerObjs,       \* the Marker objects: handle -> state and remove() calls
    pubLoad,          \* the loadData() call of this mount: "idle" | "pending" | "done"
    staleLoads,       \* the loads in flight whose `cancelled` flag is set: which kinds
    \* ---- SuperAdminView ----
    token,            \* null or the bearer token
    loginForm,        \* { email, password }
    isAuthenticating,
    loginError,
    loginInfo,
    places,           \* useState<Item[]> (places of the admin view)
    isLoadingPlaces,
    placesError,
    editingPlace,     \* null or the Item being edited
    form,             \* PlaceForm, the draft
    statusMessage,
    isSaving,
    mapRef,           \* mapRef.current: null or the live admin map
    markersRef,       \* markersRef.current: the catalog markers on the admin map
    selectionMarkerRef, \* selectionMarkerRef.current: null or the placement marker
    loginReq,         \* POST /super-admin/login in flight, with the closure's loginForm
    loadReq,          \* GET /places of loadPlaces() in flight (not cancelled), with its headers
    submitReq,        \* POST/PUT /places in flight, with the closure's editingPlace and payload
    deleteReqs,       \* DELETE /places/{id} calls in flight: a bag of { id, headers }
    lastOp            \* the handler that ran last and the outcome it met; field
                      \* edits count as "edit", route changes as "navigate"

pubVars == << artisans, pubPlaces, q, selectedItem, error, mapInstance, camera, flyTos,
              publicMarkers, cleanupMarkers, markerObjs, pubLoad >>

adminVars == << token, loginForm, isAuthenticating, loginError, loginInfo, places,
                isLoadingPlaces, placesError, editingPlace, form, statusMessage, isSaving,
                mapRef, markersRef, selectionMarkerRef, loginReq, loadReq, submitReq,
                deleteReqs >>

vars == << route, pubVars, adminVars, staleLoads, lastOp >>

----------------------------------------------------------------------------
(* Bounds of the model *)

\* DELETE calls that may be in flight together
MaxDeletes == 1

----------------------------------------------------------------------------
(* Values *)

None == << >>
Some(x) == << x >>
IsSome(o) == Len(o) = 1
Get(o) == o[1]

Absent == "absent"
NaN == "NaN"
IsNumber(c) == c # Absent
IsFinite(c) == c # Absent /\ c # NaN

Op(name, outcome) == [op |-> name, outcome |-> outcome]

----------------------------------------------------------------------------
(* Strings *)

UpperCase == << "A", "B", "H", "T", "Z" >>
LowerCase == << "a", "b", "h", "t", "z" >>

\* toLowerCase() of one character (the capitals that occur in the model's data)
Lower(c) ==
    IF \E i \in 1..Len(UpperCase) : UpperCase[i] = c
    THEN LowerCase[CHOOSE i \in 1..Len(UpperCase) : UpperCase[i] = c]
    ELSE c

\* ToLowerCase leaving the text as it is
ToLowerCaseSkipped(s) == s

ToLowerCase(s) == [i \in 1..Len(s) |-> Lower(s[i])]

\* s.includes(t): t occurs in s as a contiguous substring
Includes(s, t) ==
    \E i \in 0..(Len(s) - Len(t)) : \A j \in 1..Len(t) : s[i + j] = t[j]

IsSpace(c) == c = " "

\* s.trim(): s without its leading and trailing white space
RECURSIVE TrimLeft(_)
TrimLeft(s) == IF s # << >> /\ IsSpace(Head(s)) THEN TrimLeft(Tail(s)) ELSE s

RECURSIVE TrimRight(_)
TrimRight(s) ==
    IF s # << >> /\ IsSpace(s[Len(s)]) THEN TrimRight(SubSeq(s, 1, Len(s) - 1)) ELSE s

Trim(s) == TrimRight(TrimLeft(s))

----------------------------------------------------------------------------
(* Items *)

Item(id, name, description, category, type, lat, lng) ==
    [id |-> id, name |-> name, description |-> description, category |-> category,
     type |-> type, lat |-> lat, lng |-> lng, photo_url |-> << >>]

FbArtisanName == << "A", "r", "t", "e", "s", "a", "n", "i", "a", "s", " ", "d", "e", " ", "o", "b", "s", "i", "d", "i", "a", "n", "a" >>
FbArtisanDesc == << "T", "a", "l", "l", "a", "d", "o", " ", "t", "r", "a", "d", "i", "c", "i", "o", "n", "a", "l", " ", "c", "o", "n", " ", "p", "i", "e", "d", "r", "a", " ", "v", "o", "l", "c", "a", "n", "i", "c", "a", " ", "d", "e", " ", "l", "a", " ", "r", "e", "g", "i", "o", "n", "." >>
FbArtisanCat == << "A", "r", "t", "e", "s", "a", "n", "o" >>
FbPlaceName == << "Z", "o", "n", "a", " ", "A", "r", "q", "u", "e", "o", "l", "o", "g", "i", "c", "a", " ", "d", "e", " ", "T", "u", "l", "a" >>
FbPlaceDesc == << "H", "o", "g", "a", "r", " ", "d", "e", " ", "l", "o", "s", " ", "A", "t", "l", "a", "n", "t", "e", "s", " ", "d", "e", " ", "T", "u", "l", "a", " ", "y", " ", "c", "e", "n", "t", "r", "o", " ", "c", "e", "r", "e", "m", "o", "n", "i", "a", "l", " ", "t", "o", "l", "t", "e", "c", "a", "." >>
FbPlaceType == << "Z", "o", "n", "a", " ", "a", "r", "q", "u", "e", "o", "l", "o", "g", "i", "c", "a" >>

\* the accented letters of the source text are written unaccented
FALLBACK_ARTISANS ==
    << Item(1, FbArtisanName, FbArtisanDesc, FbArtisanCat, << >>, "20.0568", "-99.3391") >>

\* the fallback places left empty
FallbackPlacesEmpty == << >>

FALLBACK_PLACES ==
    << Item(1, FbPlaceName, FbPlaceDesc, << >>, FbPlaceType, "20.0624", "-99.3374") >>

\* what the gateway may answer to GET /artisans and GET /places: the parsed JSON
\* body is an array of items or something else
Arr(items) == [isArray |-> TRUE, data |-> items]
NotArr == [isArray |-> FALSE, data |-> << >>]

ArtisanA == Item(1, << "A", "b" >>, << >>, << "h" >>, << >>, "20.05", "-99.33")
ArtisanB == Item(2, << "b" >>, << "a", "t" >>, << >>, << >>, Absent, "-99.35")
PlaceA == Item(1, << "Z", "a" >>, << >>, << >>, << "B" >>, "20.06", "-99.34")
PlaceB == Item(2, << "t" >>, << >>, << >>, << >>, NaN, "-99.36")

ArtisanBodies == { Arr(<< >>), Arr(<< ArtisanA >>), Arr(<< ArtisanA, ArtisanB >>), NotArr }
PlaceBodies == { Arr(<< PlaceA >>), Arr(<< PlaceA, PlaceB >>), NotArr }

\* how a fetch and the json() of its response may end: the fetch is rejected, the
\* response is not ok, the body does not parse, or the body parses
Rejected == [status |-> "rejected", body |-> NotArr]
NotOk == [status |-> "not ok", body |-> NotArr]
Unparseable == [status |-> "unparseable", body |-> NotArr]
Answered(body) == [status |-> "ok", body |-> body]

ArtisanResponses == { Rejected, NotOk, Unparseable } \cup { Answered(b) : b \in ArtisanBodies }
PlaceResponses == { Rejected, NotOk, Unparseable } \cup { Answered(b) : b \in PlaceBodies }

\* what the visitor may type in the search box
QueryInputs == { << >>, << "a" >>, << "Z" >>, << "b" >> }

\* { ...item, kind }
WithKind(it, kind) ==
    [id |-> it.id, name |-> it.name, description |-> it.description,
     category |-> it.category, type |-> it.type, lat |-> it.lat, lng |-> it.lng,
     photo_url |-> it.photo_url, kind |-> kind]

Tagged(list, kind) == [i \in 1..Len(list) |-> WithKind(list[i], kind)]

\* i.category || i.type || ''
Meta(i) == IF i.category # << >> THEN i.category ELSE i.type

Matches(i, qq) ==
    \/ Includes(ToLowerCase(i.name), qq)
    \/ Includes(ToLowerCase(i.description), qq)
    \/ Includes(ToLowerCase(Meta(i)), qq)

\* the `items` memo: the kind-tagged catalog, filtered by the query
Items(as, ps, query) ==
    LET all == Tagged(as, "Artesano") \o Tagged(ps, "Lugar")
        qq == ToLowerCase(query)
    IN  IF query = << >> THEN all ELSE SelectSeq(all, LAMBDA i : Matches(i, qq))

KeyOf(i) == << i.kind, i.id >>

----------------------------------------------------------------------------
(* The Map Engine's marker objects *)

Range(seq) == { seq[i] : i \in 1..Len(seq) }

\* marker.remove() on every marker of hs; `disposed` says whether the map the
\* markers were added to has already been removed
RemoveAll(objs, hs, disposed) ==
    [h \in DOMAIN objs |->
        IF h \in Range(hs)
        THEN [objs[h] EXCEPT !.attached = FALSE,
                             !.removes = @ + 1,
                             !.late = @ + (IF disposed THEN 1 ELSE 0)]
        ELSE objs[h]]

\* the objects the program still holds a reference to
Referenced(objs, field, closure) ==
    LET held == (IF IsSome(field) THEN Range(Get(field)) ELSE {})
                \cup (IF IsSome(closure) THEN Range(Get(closure)) ELSE {})
    IN  [h \in (DOMAIN objs) \cap held |-> objs[h]]

\* the n smallest handles not in use
RECURSIVE Fresh(_, _)
Fresh(used, n) ==
    IF n = 0 THEN << >>
    ELSE LET h == CHOOSE k \in 1..(Cardinality(used) + 1) :
                      k \notin used /\ \A j \in 1..(k - 1) : j \in used
         IN  << h >> \o Fresh(used \cup {h}, n - 1)

\* NewMarker without its addTo(map)
NewMarkerNotAdded(item) ==
    [key |-> KeyOf(item), lat |-> item.lat, lng |-> item.lng,
     attached |-> FALSE, removes |-> 0, late |-> 0]

\* new maplibregl.Marker(...).setLngLat([lng, lat]).addTo(map)
NewMarker(item) ==
    [key |-> KeyOf(item), lat |-> item.lat, lng |-> item.lng,
     attached |-> TRUE, removes |-> 0, late |-> 0]

\* the items the marker loop does not skip
HasNumberCoords(item) == IsNumber(item.lat) /\ IsNumber(item.lng)

\* the marker effect of PublicExplorer, run for the filtered view `its`;
\* yields the marker objects, map._publicMarkers and the cleanup's `markers`
PublicMarkerEffect(map, objs, field, its) ==
    IF ~IsSome(map)
    THEN [objs |-> objs, field |-> field, closure |-> None]
    ELSE LET swept == RemoveAll(objs, IF IsSome(field) THEN Get(field) ELSE << >>, FALSE)
             shown == SelectSeq(its, HasNumberCoords)
             hs == Fresh(DOMAIN swept, Len(shown))
             added == [h \in (DOMAIN swept) \cup Range(hs) |->
                          IF h \in DOMAIN swept THEN swept[h]
                          ELSE NewMarker(shown[CHOOSE i \in 1..Len(hs) : hs[i] = h])]
         IN  [objs |-> added, field |-> Some(hs), closure |-> Some(hs)]

\* the cleanup the marker effect returned: markers.forEach(marker => marker.remove())
PublicMarkerCleanup(objs, closure, disposed) ==
    IF IsSome(closure) THEN RemoveAll(objs, Get(closure), disposed) ELSE objs

\* Heal comparing ids only, not kinds
HealByIdOnly(sel, its) ==
    IF ~IsSome(sel) THEN sel
    ELSE IF \E i \in 1..Len(its) : its[i].id = Get(sel).id THEN sel ELSE None

\* the selection-healing effect: the selection is dropped when no item of the
\* filtered view has its id and kind
Heal(sel, its) ==
    IF ~IsSome(sel) THEN sel
    ELSE IF \E i \in 1..Len(its) : its[i].id = Get(sel).id /\ its[i].kind = Get(sel).kind
         THEN sel
         ELSE None

DefaultCamera == [center |-> << "-99.3389", "20.0617" >>, zoom |-> "12"]

\* the render and effects that follow a change of artisans, places or q
PublicCommit(as, ps, query) ==
    LET its == Items(as, ps, query)
        live == Referenced(markerObjs, publicMarkers, cleanupMarkers)
        cleaned == PublicMarkerCleanup(live, cleanupMarkers, FALSE)
        eff == PublicMarkerEffect(mapInstance, cleaned, publicMarkers, its)
    IN  /\ artisans' = as
        /\ pubPlaces' = ps
        /\ q' = query
        /\ selectedItem' = Heal(selectedItem, its)
        /\ markerObjs' = eff.objs
        /\ publicMarkers' = eff.field
        /\ cleanupMarkers' = eff.closure
        /\ flyTos' = 0

----------------------------------------------------------------------------
(* PublicExplorer *)

\* the component's state before its first render, and what is left once it is
\* torn down
PublicUnmountedState ==
    [artisans |-> << >>, pubPlaces |-> << >>, q |-> << >>, selectedItem |-> None,
     error |-> None, mapInstance |-> None, camera |-> DefaultCamera, flyTos |-> 0,
     publicMarkers |-> None, cleanupMarkers |-> None, markerObjs |-> << >>,
     pubLoad |-> "idle"]

\* the state after the first render and its effects: loadData() is in flight, the
\* map exists and the marker effect has run for the empty view
PublicMountedState ==
    LET eff == PublicMarkerEffect(Some("map"), << >>, None, << >>)
    IN  [artisans |-> << >>, pubPlaces |-> << >>, q |-> << >>, selectedItem |-> None,
         error |-> None, mapInstance |-> Some("map"), camera |-> DefaultCamera,
         flyTos |-> 0,
         publicMarkers |-> eff.field, cleanupMarkers |-> eff.closure,
         markerObjs |-> eff.objs, pubLoad |-> "pending"]

PublicIs(st) ==
    /\ artisans = st.artisans
    /\ pubPlaces = st.pubPlaces
    /\ q = st.q
    /\ selectedItem = st.selectedItem
    /\ error = st.error
    /\ mapInstance = st.mapInstance
    /\ camera = st.camera
    /\ flyTos = st.flyTos
    /\ publicMarkers = st.publicMarkers
    /\ cleanupMarkers = st.cleanupMarkers
    /\ markerObjs = st.markerObjs
    /\ pubLoad = st.pubLoad

\* hashchange to '#/super-admin': PublicExplorer unmounts and its effect cleanups
\* run in the order the effects are declared: cancelled = true, then map.remove(),
\* then the marker cleanup
PublicUnmount ==
    /\ route = "public"
    /\ route' = "super-admin"
    /\ staleLoads' = staleLoads \cup (IF pubLoad = "pending" THEN { "loadData" } ELSE { })
    /\ markerObjs' = PublicMarkerCleanup(
                         Referenced(markerObjs, publicMarkers, cleanupMarkers),
                         cleanupMarkers, TRUE)
    /\ artisans' = PublicUnmountedState.artisans
    /\ pubPlaces' = PublicUnmountedState.pubPlaces
    /\ q' = PublicUnmountedState.q
    /\ selectedItem' = PublicUnmountedState.selectedItem
    /\ error' = PublicUnmountedState.error
    /\ mapInstance' = PublicUnmountedState.mapInstance
    /\ camera' = PublicUnmountedState.camera
    /\ flyTos' = PublicUnmountedState.flyTos
    /\ publicMarkers' = PublicUnmountedState.publicMarkers
    /\ cleanupMarkers' = PublicUnmountedState.cleanupMarkers
    /\ pubLoad' = PublicUnmountedState.pubLoad
    /\ lastOp' = Op("navigate", "")
    /\ UNCHANGED adminVars

\* a fresh PublicExplorer renders and its effects run
PublicMounts ==
    /\ artisans' = PublicMountedState.artisans
    /\ pubPlaces' = PublicMountedState.pubPlaces
    /\ q' = PublicMountedState.q
    /\ selectedItem' = PublicMountedState.selectedItem
    /\ error' = PublicMountedState.error
    /\ mapInstance' = PublicMountedState.mapInstance
    /\ camera' = PublicMountedState.camera
    /\ flyTos' = PublicMountedState.flyTos
    /\ publicMarkers' = PublicMountedState.publicMarkers
    /\ cleanupMarkers' = PublicMountedState.cleanupMarkers
    /\ markerObjs' = PublicMountedState.markerObjs
    /\ pubLoad' = PublicMountedState.pubLoad

\* hashchange back to the public route: a fresh PublicExplorer mounts
PublicMount ==
    /\ route = "super-admin"
    /\ route' = "public"
    /\ PublicMounts
    /\ lastOp' = Op("navigate", "")
    /\ UNCHANGED << adminVars, staleLoads >>

\* LoadDataThrows asking for both calls to fail
LoadDataThrowsWhenBothFail(ra, rp) == ra.status # "ok" /\ rp.status # "ok"

\* whether loadData() lands in its catch block: Promise.all of the fetches
\* rejects, a response is not ok, or Promise.all of the json() calls rejects
LoadDataThrows(ra, rp) ==
    \/ ra.status = "rejected" \/ rp.status = "rejected"
    \/ ra.status = "not ok" \/ rp.status = "not ok"
    \/ ra.status = "unparseable" \/ rp.status = "unparseable"

\* loadData(): both responses are ok and both bodies parse
PublicLoadOk ==
    /\ route = "public"
    /\ pubLoad = "pending"
    /\ \E ra \in ArtisanResponses, rp \in PlaceResponses :
          /\ ~LoadDataThrows(ra, rp)
          /\ PublicCommit(IF ra.body.isArray THEN ra.body.data ELSE << >>,
                          IF rp.body.isArray THEN rp.body.data ELSE << >>, q)
          /\ lastOp' = Op("publicLoad", << ra.status, rp.status >>)
    /\ error' = None
    /\ pubLoad' = "done"
    /\ UNCHANGED << route, mapInstance, camera, adminVars, staleLoads >>

\* why loadPlaces() may land in its catch block
LoadFailures == { "network error", "not ok", "malformed body" }

\* loadData(): the catch block
PublicLoadFail ==
    /\ route = "public"
    /\ pubLoad = "pending"
    /\ \E ra \in ArtisanResponses, rp \in PlaceResponses :
          /\ LoadDataThrows(ra, rp)
          /\ lastOp' = Op("publicLoad", << ra.status, rp.status >>)
    /\ PublicCommit(FALLBACK_ARTISANS, FALLBACK_PLACES, q)
    /\ error' = Some("live data unavailable, showing sample data")
    /\ pubLoad' = "done"
    /\ UNCHANGED << route, mapInstance, camera, adminVars, staleLoads >>

\* IfNotCancelled without the test of the flag
IfNotCancelledIgnored(cancelled, value, current) == value

\* if(!cancelled){ set...(value) }
IfNotCancelled(cancelled, value, current) == IF cancelled THEN current ELSE value

\* the answer to a load whose `cancelled` flag is set arrives, and the code after
\* the await runs with the flag set; other such loads may remain in flight.  The
\* admin side of it, StaleLoadPlaces, is defined with SuperAdminView
StaleLoadData ==
    /\ \E failed \in BOOLEAN :
          /\ artisans' = IfNotCancelled(TRUE,
                             IF failed THEN FALLBACK_ARTISANS ELSE << ArtisanA >>, artisans)
          /\ pubPlaces' = IfNotCancelled(TRUE,
                              IF failed THEN FALLBACK_PLACES ELSE << PlaceA >>, pubPlaces)
          /\ error' = IfNotCancelled(TRUE,
                          IF failed THEN Some("live data unavailable, showing sample data")
                          ELSE None, error)
    /\ UNCHANGED << q, selectedItem, mapInstance, camera, flyTos, publicMarkers,
                    cleanupMarkers, markerObjs, pubLoad, adminVars >>

\* typing in the search box
SetQ ==
    /\ route = "public"
    /\ \E v \in QueryInputs :
          /\ v # q
          /\ PublicCommit(artisans, pubPlaces, v)
    /\ lastOp' = Op("setQ", "")
    /\ UNCHANGED << route, error, mapInstance, camera, pubLoad, adminVars, staleLoads >>

\* FlyTo leaving the camera where it is
FlyToIgnored(cam, lng, lat) == cam

\* map.flyTo({ center: [lng, lat], zoom: 15 })
FlyTo(cam, lng, lat) == [center |-> << lng, lat >>, zoom |-> "15"]

\* focus(item), from a click on a list entry or on the item's marker: one flyTo()
\* call, then setSelectedItem
Focus ==
    /\ route = "public"
    /\ IsSome(mapInstance)
    /\ \E i \in 1..Len(Items(artisans, pubPlaces, q)) :
          LET item == Items(artisans, pubPlaces, q)[i]
          IN  \/ /\ IsFinite(item.lat) /\ IsFinite(item.lng)
                  /\ camera' = FlyTo(camera, item.lng, item.lat)
                  /\ selectedItem' = Heal(Some(item), Items(artisans, pubPlaces, q))
                  /\ lastOp' = Op("focus", item.kind)
              \* the Map Engine is handed a coordinate that is no finite number:
              \* flyTo either throws (focus ends there) or returns
              \/ /\ ~(IsFinite(item.lat) /\ IsFinite(item.lng))
                  /\ \E thrown \in BOOLEAN :
                        /\ selectedItem' = IF thrown THEN selectedItem
                                           ELSE Heal(Some(item), Items(artisans, pubPlaces, q))
                        /\ camera' = camera
                        /\ lastOp' = Op(IF thrown THEN "focusThrew" ELSE "focus",
                                        item.kind)
    /\ flyTos' = 1
    /\ UNCHANGED << route, artisans, pubPlaces, q, error, mapInstance, publicMarkers,
                    cleanupMarkers, markerObjs, pubLoad, adminVars, staleLoads >>

----------------------------------------------------------------------------
(* SuperAdminView: values *)

EMPTY_PLACE_FORM ==
    [name |-> << >>, description |-> << >>, type |-> << >>, photo_url |-> << >>,
     lat |-> Absent, lng |-> Absent]

EmptyLoginForm == [email |-> "", password |-> ""]

DemoEmail == "demo@tula.mx"
DemoPassword == "demo123"

\* what the operator may type in the login form
EmailInputs == { DemoEmail, "admin@tula.mx" }
PasswordInputs == { DemoPassword }

\* what the operator may type in the place form: field -> the texts
FormInputs ==
    [name |-> { << " " >>, << " ", "n" >> },
     description |-> { },
     type |-> { },
     photo_url |-> { }]

PlaceC == Item(2, << "t" >>, << >>, << >>, << "b" >>, "20.07", Absent)

\* what the gateway may answer to the admin's GET /places
AdminPlaceBodies == { Arr(<< >>), Arr(<< PlaceA, PlaceC >>), NotArr }

\* ids the gateway may put in the body it answers a POST or PUT with
GatewayIds == { 2 }

\* what Date.now() may return (a millisecond count, written short)
NowValues == { 1700 }

\* how a gateway call may fail
CallFailures == { "network error", "not ok" }

Msg ==
    [nameRequired |-> "Escribe el nombre del lugar antes de guardar.",
     coordsRequired |-> "Selecciona la ubicacion del lugar haciendo clic en el mapa.",
     updated |-> "Lugar actualizado exitosamente.",
     created |-> "Lugar creado exitosamente.",
     savedLocally |-> "No se pudo contactar al servidor. El cambio se guardo localmente.",
     deleted |-> "Lugar eliminado correctamente.",
     deletedLocally |-> "No se pudo contactar al servidor. El lugar se elimino localmente.",
     loginOk |-> "Sesion iniciada correctamente.",
     loginDemo |-> "Inicio de sesion en modo demostracion.",
     loginFailed |-> "No se pudo iniciar sesion.",
     noPlaces |-> "Aun no hay lugares registrados.",
     placesFallback |-> "No se pudo obtener la informacion en vivo."]

----------------------------------------------------------------------------
(* SuperAdminView: effects *)

\* the map effect (deps []): it runs once, after the first render, and creates
\* the map only when the map container is in the document at that moment
AdminMapEffect(containerRendered, map) ==
    IF ~containerRendered \/ IsSome(map) THEN map ELSE Some("map")

\* the marker effect (deps [places, editingPlace, focusPlace])
AdminMarkerEffect(map, ps, editing, markers) ==
    IF ~IsSome(map) THEN markers
    ELSE LET shown == SelectSeq(ps, HasNumberCoords)
         IN  [i \in 1..Len(shown) |->
                 [id |-> shown[i].id, lat |-> shown[i].lat, lng |-> shown[i].lng,
                  active |-> IsSome(editing) /\ Get(editing).id = shown[i].id]]

\* the placement-marker effect (deps [form.lat, form.lng])
PlacementEffect(map, f, sel) ==
    IF ~IsSome(map) THEN sel
    ELSE IF f.lat = Absent \/ f.lng = Absent THEN None
    ELSE Some([lng |-> f.lng, lat |-> f.lat])

\* the effects that follow a render of SuperAdminView with the primed state;
\* `sel` is selectionMarkerRef.current as the handler left it
AdminEffects(sel) ==
    /\ mapRef' = mapRef
    /\ markersRef' = AdminMarkerEffect(mapRef, places', editingPlace', markersRef)
    /\ selectionMarkerRef' =
          IF << form'.lat, form'.lng >> # << form.lat, form.lng >>
          THEN PlacementEffect(mapRef, form', sel)
          ELSE sel

\* AuthHeaders sending no Authorization header
AuthHeadersEmpty(tok) == None

\* authHeaders of a render: { Authorization: `Bearer ${token}` } or {}
AuthHeaders(tok) ==
    IF IsSome(tok) THEN Some([Authorization |-> << "Bearer", Get(tok) >>]) ELSE None

\* the loadPlaces effect (deps [token]) when the token changes: the cleanup sets
\* `cancelled` of the load in flight, and a load starts when there is a token
LoadPlacesEffect ==
    /\ staleLoads' = staleLoads \cup (IF IsSome(loadReq) THEN { "loadPlaces" } ELSE { })
    /\ IF IsSome(token')
       THEN /\ loadReq' = Some([method |-> "GET", headers |-> AuthHeaders(token')])
            /\ isLoadingPlaces' = TRUE
            /\ placesError' = None
       ELSE /\ loadReq' = None
            /\ UNCHANGED << isLoadingPlaces, placesError >>

----------------------------------------------------------------------------
(* SuperAdminView: session *)

\* the component's state at its first render, after its effects: the map effect
\* found no map container (the login card is rendered, there is no token) and the
\* loadPlaces effect found no token
AdminInitialState ==
    [token |-> None, loginForm |-> EmptyLoginForm, isAuthenticating |-> FALSE,
     loginError |-> None, loginInfo |-> None, places |-> << >>,
     isLoadingPlaces |-> FALSE, placesError |-> None, editingPlace |-> None,
     form |-> EMPTY_PLACE_FORM, statusMessage |-> None, isSaving |-> FALSE,
     mapRef |-> AdminMapEffect(FALSE, None), markersRef |-> << >>,
     selectionMarkerRef |-> None, loginReq |-> None, loadReq |-> None,
     submitReq |-> None, deleteReqs |-> EmptyBag]

AdminInitial ==
    /\ token = AdminInitialState.token
    /\ loginForm = AdminInitialState.loginForm
    /\ isAuthenticating = AdminInitialState.isAuthenticating
    /\ loginError = AdminInitialState.loginError
    /\ loginInfo = AdminInitialState.loginInfo
    /\ places = AdminInitialState.places
    /\ isLoadingPlaces = AdminInitialState.isLoadingPlaces
    /\ placesError = AdminInitialState.placesError
    /\ editingPlace = AdminInitialState.editingPlace
    /\ form = AdminInitialState.form
    /\ statusMessage = AdminInitialState.statusMessage
    /\ isSaving = AdminInitialState.isSaving
    /\ mapRef = AdminInitialState.mapRef
    /\ markersRef = AdminInitialState.markersRef
    /\ selectionMarkerRef = AdminInitialState.selectionMarkerRef
    /\ loginReq = AdminInitialState.loginReq
    /\ loadReq = AdminInitialState.loadReq
    /\ submitReq = AdminInitialState.submitReq
    /\ deleteReqs = AdminInitialState.deleteReqs

\* the login card is on screen
LoginCardRendered == route = "super-admin" /\ ~IsSome(token)

\* the admin layout (form, list, map container) is on screen
AdminLayoutRendered == route = "super-admin" /\ IsSome(token)

\* handleLoginChange(field, value), the e-mail typed being one of `emails`
LoginChange(emails) ==
    /\ LoginCardRendered
    /\ \/ \E v \in emails :
             v # loginForm.email /\ loginForm' = [loginForm EXCEPT !.email = v]
       \/ \E v \in PasswordInputs :
             v # loginForm.password /\ loginForm' = [loginForm EXCEPT !.password = v]
    /\ lastOp' = Op("edit", "")
    /\ UNCHANGED << route, pubVars, staleLoads, token, isAuthenticating, loginError,
                    loginInfo, places, isLoadingPlaces, placesError, editingPlace, form,
                    statusMessage, isSaving, mapRef, markersRef, selectionMarkerRef,
                    loginReq, loadReq, submitReq, deleteReqs >>

\* handleLogin up to its await: the form's fields are `required` and the submit
\* button is disabled while isAuthenticating
LoginSubmit ==
    /\ LoginCardRendered
    /\ ~isAuthenticating
    /\ loginForm.email # "" /\ loginForm.password # ""
    /\ isAuthenticating' = TRUE
    /\ loginError' = None
    /\ loginInfo' = None
    /\ loginReq' = Some(loginForm)
    /\ lastOp' = Op("loginSubmit", "")
    /\ UNCHANGED << route, pubVars, staleLoads, token, loginForm, places,
                    isLoadingPlaces, placesError, editingPlace, form, statusMessage,
                    isSaving, mapRef, markersRef, selectionMarkerRef, loadReq, submitReq,
                    deleteReqs >>

\* the condition of the demonstration fallback in handleLogin's catch block
IsDemoPair(creds) == creds.email = DemoEmail /\ creds.password = DemoPassword

\* what handleLogin's catch block does with the credentials it closed over
LoginFallback(creds) ==
    IF IsDemoPair(creds)
    THEN [token |-> Some("demo-local-token"), info |-> Some(Msg.loginDemo), error |-> None]
    ELSE [token |-> None, info |-> None, error |-> Some(Msg.loginFailed)]

\* how the login call may end without a token: a rejected fetch, a response that
\* is not ok, or a body that does not parse or holds no token string
LoginFailures == CallFailures \cup { "bad body" }

LoginSettleCommon ==
    /\ isAuthenticating' = FALSE
    /\ loginReq' = None
    /\ UNCHANGED << route, pubVars, loginForm, places, editingPlace, form,
                    statusMessage, isSaving, submitReq, deleteReqs >>
    /\ LoadPlacesEffect
    /\ AdminEffects(selectionMarkerRef)

\* handleLogin after its await: the gateway answered ok with { token }
LoginSettleOk ==
    /\ route = "super-admin"
    /\ IsSome(loginReq)
    /\ token' = Some("server-token")
    /\ loginInfo' = Some(Msg.loginOk)
    /\ loginError' = loginError
    /\ lastOp' = Op("loginSettle", "ok")
    /\ LoginSettleCommon

\* handleLogin after its await: the catch block
LoginSettleFail ==
    /\ route = "super-admin"
    /\ IsSome(loginReq)
    /\ \E why \in LoginFailures : lastOp' = Op("loginSettle", why)
    /\ LET fb == LoginFallback(Get(loginReq))
       IN  /\ token' = fb.token
           /\ loginInfo' = IF IsSome(fb.info) THEN fb.info ELSE loginInfo
           /\ loginError' = IF IsSome(fb.error) THEN fb.error ELSE loginError
    /\ LoginSettleCommon

\* LoggedOut without its setPlaces([])
LoggedOutKeepingPlaces ==
    [token |-> None, places |-> places, form |-> EMPTY_PLACE_FORM, editingPlace |-> None,
     statusMessage |-> None, loginForm |-> EmptyLoginForm]

\* handleLogout
LoggedOut ==
    [token |-> None, places |-> << >>, form |-> EMPTY_PLACE_FORM, editingPlace |-> None,
     statusMessage |-> None, loginForm |-> EmptyLoginForm]

Logout ==
    /\ AdminLayoutRendered
    /\ token' = LoggedOut.token
    /\ places' = LoggedOut.places
    /\ form' = LoggedOut.form
    /\ editingPlace' = LoggedOut.editingPlace
    /\ statusMessage' = LoggedOut.statusMessage
    /\ loginForm' = LoggedOut.loginForm
    /\ LoadPlacesEffect
    /\ AdminEffects(selectionMarkerRef)
    /\ lastOp' = Op("logout", "")
    /\ UNCHANGED << route, pubVars, isAuthenticating, loginError, loginInfo, isSaving,
                    loginReq, submitReq, deleteReqs >>

\* loadPlaces() after its awaits, `cancelled` not set: the response is ok and parses
LoadPlacesOk ==
    /\ route = "super-admin"
    /\ IsSome(loadReq)
    /\ \E body \in AdminPlaceBodies :
          /\ places' = IF body.isArray THEN body.data ELSE << >>
          /\ placesError' = IF ~body.isArray \/ Len(body.data) = 0
                            THEN Some(Msg.noPlaces) ELSE placesError
    /\ isLoadingPlaces' = FALSE
    /\ loadReq' = None
    /\ lastOp' = Op("loadPlaces", "ok")
    /\ UNCHANGED << route, pubVars, staleLoads, token, loginForm, isAuthenticating,
                    loginError, loginInfo, editingPlace, form, statusMessage, isSaving,
                    loginReq, submitReq, deleteReqs >>
    /\ AdminEffects(selectionMarkerRef)

\* loadPlaces() after its awaits, `cancelled` not set: the catch block
LoadPlacesFail ==
    /\ route = "super-admin"
    /\ IsSome(loadReq)
    /\ \E why \in LoadFailures : lastOp' = Op("loadPlaces", why)
    /\ places' = FALLBACK_PLACES
    /\ placesError' = Some(Msg.placesFallback)
    /\ isLoadingPlaces' = FALSE
    /\ loadReq' = None
    /\ UNCHANGED << route, pubVars, staleLoads, token, loginForm, isAuthenticating,
                    loginError, loginInfo, editingPlace, form, statusMessage, isSaving,
                    loginReq, submitReq, deleteReqs >>
    /\ AdminEffects(selectionMarkerRef)

----------------------------------------------------------------------------
(* SuperAdminView: the place form and the mutation pipeline *)

\* focusPlace(place): the draft is filled from the place
DraftOf(place) ==
    [name |-> place.name, description |-> place.description, type |-> place.type,
     photo_url |-> place.photo_url,
     lat |-> IF IsNumber(place.lat) THEN place.lat ELSE Absent,
     lng |-> IF IsNumber(place.lng) THEN place.lng ELSE Absent]

\* focusPlace, from the "Editar" button of a list entry (the list is rendered when
\* the catalog is not loading) or from a catalog marker of the admin map
FocusPlace ==
    /\ AdminLayoutRendered
    /\ \E i \in 1..Len(places) :
          /\ \/ ~isLoadingPlaces
             \/ \E j \in 1..Len(markersRef) : markersRef[j].id = places[i].id
          /\ editingPlace' = Some(places[i])
          /\ form' = DraftOf(places[i])
          /\ lastOp' = Op("edit", "")
    /\ statusMessage' = None
    /\ UNCHANGED << route, pubVars, staleLoads, token, loginForm, isAuthenticating,
                    loginError, loginInfo, places, isLoadingPlaces, placesError, isSaving,
                    loginReq, loadReq, submitReq, deleteReqs >>
    /\ AdminEffects(selectionMarkerRef)

\* resetForm(), the "Nuevo lugar" button
ResetForm ==
    /\ AdminLayoutRendered
    /\ editingPlace' = None
    /\ form' = EMPTY_PLACE_FORM
    /\ statusMessage' = None
    /\ lastOp' = Op("edit", "")
    /\ UNCHANGED << route, pubVars, staleLoads, token, loginForm, isAuthenticating,
                    loginError, loginInfo, places, isLoadingPlaces, placesError, isSaving,
                    loginReq, loadReq, submitReq, deleteReqs >>
    /\ AdminEffects(selectionMarkerRef)

\* handleFormChange(field, value), from the four text inputs of the form
FormChange ==
    /\ AdminLayoutRendered
    /\ \E field \in DOMAIN FormInputs : \E v \in FormInputs[field] :
          /\ v # form[field]
          /\ form' = [form EXCEPT ![field] = v]
    /\ lastOp' = Op("edit", "")
    /\ UNCHANGED << route, pubVars, staleLoads, token, loginForm, isAuthenticating,
                    loginError, loginInfo, places, isLoadingPlaces, placesError,
                    editingPlace, statusMessage, isSaving, loginReq, loadReq, submitReq,
                    deleteReqs >>
    /\ AdminEffects(selectionMarkerRef)

\* DraftProblem testing the name as typed, not trimmed
DraftProblemUntrimmed(f) ==
    IF f.name = << >> THEN Some(Msg.nameRequired)
    ELSE IF f.lat = Absent \/ f.lng = Absent THEN Some(Msg.coordsRequired)
    ELSE None

\* handleSubmit's validation: the message it stops with, or none
DraftProblem(f) ==
    IF Trim(f.name) = << >> THEN Some(Msg.nameRequired)
    ELSE IF f.lat = Absent \/ f.lng = Absent THEN Some(Msg.coordsRequired)
    ELSE None

\* handleSubmit's payload
Payload(f, editing) ==
    [id |-> IF IsSome(editing) THEN Get(editing).id ELSE 0,
     name |-> Trim(f.name), description |-> Trim(f.description), type |-> Trim(f.type),
     lat |-> f.lat, lng |-> f.lng, photo_url |-> Trim(f.photo_url)]

\* the submit button is rendered with the admin layout and disabled while isSaving
SubmitEnabled == AdminLayoutRendered /\ ~isSaving

\* handleSubmit stopped by its validation
SubmitRejected ==
    /\ SubmitEnabled
    /\ IsSome(DraftProblem(form))
    /\ statusMessage' = DraftProblem(form)
    /\ lastOp' = Op("submitRejected", "")
    /\ UNCHANGED << route, pubVars, staleLoads, token, loginForm, isAuthenticating,
                    loginError, loginInfo, places, isLoadingPlaces, placesError,
                    editingPlace, form, isSaving, loginReq, loadReq, submitReq,
                    deleteReqs >>
    /\ AdminEffects(selectionMarkerRef)

\* handleSubmit up to its await: the call is issued
SubmitIssue ==
    /\ SubmitEnabled
    /\ ~IsSome(DraftProblem(form))
    /\ isSaving' = TRUE
    /\ statusMessage' = None
    /\ submitReq' = Some([method |-> IF IsSome(editingPlace) THEN "PUT" ELSE "POST",
                          target |-> editingPlace,
                          payload |-> Payload(form, editingPlace),
                          headers |-> AuthHeaders(token),
                          token |-> token])
    /\ lastOp' = Op("submitIssue", "")
    /\ UNCHANGED << route, pubVars, staleLoads, token, loginForm, isAuthenticating,
                    loginError, loginInfo, places, isLoadingPlaces, placesError,
                    editingPlace, form, loginReq, loadReq, deleteReqs >>
    /\ AdminEffects(selectionMarkerRef)

\* the bodies the gateway may answer a POST or PUT with: the payload echoed, the
\* payload under another id, or the payload without an id
SaveBodies(payload) ==
    { [item |-> payload, hasId |-> TRUE], [item |-> payload, hasId |-> FALSE] }
    \cup { [item |-> [payload EXCEPT !.id = j], hasId |-> TRUE] : j \in GatewayIds }

\* { ...p, ...saved }
Merge(p, saved, hasId) ==
    [id |-> IF hasId THEN saved.id ELSE p.id,
     name |-> saved.name, description |-> saved.description, category |-> p.category,
     type |-> saved.type, lat |-> saved.lat, lng |-> saved.lng,
     photo_url |-> saved.photo_url]

\* { ...saved, id }
Created(saved, id) ==
    [id |-> id,
     name |-> saved.name, description |-> saved.description, category |-> << >>,
     type |-> saved.type, lat |-> saved.lat, lng |-> saved.lng,
     photo_url |-> saved.photo_url]

\* Replaced adding the saved place when no entry of the list has the id
ReplacedOrAdded(current, id, saved, hasId) ==
    IF \E i \in 1..Len(current) : current[i].id = id
    THEN [i \in 1..Len(current) |->
            IF current[i].id = id THEN Merge(current[i], saved, hasId) ELSE current[i]]
    ELSE Append(current, Created(saved, id))

\* current.map(p => p.id === editingPlace.id ? { ...p, ...saved } : p)
Replaced(current, id, saved, hasId) ==
    [i \in 1..Len(current) |->
        IF current[i].id = id THEN Merge(current[i], saved, hasId) ELSE current[i]]

\* the updater handleSubmit hands to setPlaces, for the closure's editingPlace
Saved(current, target, saved, hasId, now) ==
    IF IsSome(target)
    THEN Replaced(current, Get(target).id, saved, hasId)
    ELSE Append(current, Created(saved, IF hasId THEN saved.id ELSE now))

\* SubmitSettleCommon without handleSubmit's finally block
SubmitSettleCommonNoFinally ==
    /\ isSaving' = isSaving
    /\ submitReq' = None
    /\ UNCHANGED << route, pubVars, staleLoads, token, loginForm, isAuthenticating,
                    loginError, loginInfo, isLoadingPlaces, placesError, editingPlace,
                    loginReq, loadReq, deleteReqs >>

\* what both ends of handleSubmit do: the finally block clears isSaving
SubmitSettleCommon ==
    /\ isSaving' = FALSE
    /\ submitReq' = None
    /\ UNCHANGED << route, pubVars, staleLoads, token, loginForm, isAuthenticating,
                    loginError, loginInfo, isLoadingPlaces, placesError, editingPlace,
                    loginReq, loadReq, deleteReqs >>

\* handleSubmit after its await: the response is ok; a body that does not parse
\* stands for the payload
SubmitSettleOk ==
    /\ route = "super-admin"
    /\ IsSome(submitReq)
    /\ LET req == Get(submitReq)
       IN  /\ \E now \in NowValues :
                 \/ \E body \in SaveBodies(req.payload) :
                       /\ places' = Saved(places, req.target, body.item, body.hasId, now)
                       /\ lastOp' = Op("submitSettle", "ok")
                 \/ /\ places' = Saved(places, req.target, req.payload, TRUE, now)
                    /\ lastOp' = Op("submitSettle", "ok, no body")
           /\ statusMessage' = Some(IF IsSome(req.target) THEN Msg.updated ELSE Msg.created)
           /\ form' = IF IsSome(req.target) THEN form ELSE EMPTY_PLACE_FORM
           /\ SubmitSettleCommon
           /\ AdminEffects(IF IsSome(req.target) THEN selectionMarkerRef ELSE None)

\* handleSubmit after its await: the catch block
SubmitSettleFail ==
    /\ route = "super-admin"
    /\ IsSome(submitReq)
    /\ LET req == Get(submitReq)
       IN  /\ \E why \in CallFailures : lastOp' = Op("submitSettle", why)
           /\ \E now \in NowValues :
                 places' = Saved(places, req.target, req.payload, FALSE, now)
           /\ statusMessage' = Some(Msg.savedLocally)
           /\ form' = form
           /\ SubmitSettleCommon
           /\ AdminEffects(selectionMarkerRef)

\* the "Eliminar" button is rendered while a place is being edited and disabled
\* while isSaving; it calls handleDelete(editingPlace)
DeleteEnabled == AdminLayoutRendered /\ IsSome(editingPlace) /\ ~isSaving

\* DeleteDeclined with the local removal done before the confirmation is read
DeleteDeclinedAfterRemoval ==
    /\ DeleteEnabled
    /\ lastOp' = Op("deleteDeclined", "")
    /\ places' = SelectSeq(places, LAMBDA p : p.id # Get(editingPlace).id)
    /\ UNCHANGED << route, pubVars, staleLoads, token, loginForm, isAuthenticating,
                    loginError, loginInfo, isLoadingPlaces, placesError, editingPlace,
                    form, statusMessage, isSaving, mapRef, markersRef,
                    selectionMarkerRef, loginReq, loadReq, submitReq, deleteReqs >>

\* handleDelete: window.confirm answered no
DeleteDeclined ==
    /\ DeleteEnabled
    /\ lastOp' = Op("deleteDeclined", "")
    /\ UNCHANGED << route, pubVars, staleLoads, adminVars >>

\* Without with the comparison turned round
WithoutOthers(current, id) == SelectSeq(current, LAMBDA p : p.id = id)

\* current.filter(p => p.id !== place.id)
Without(current, id) == SelectSeq(current, LAMBDA p : p.id # id)

\* handleDelete up to its await: window.confirm answered yes
DeleteConfirm ==
    /\ DeleteEnabled
    /\ BagCardinality(deleteReqs) < MaxDeletes
    /\ statusMessage' = None
    /\ places' = Without(places, Get(editingPlace).id)
    /\ deleteReqs' = deleteReqs (+) SetToBag({ [id |-> Get(editingPlace).id,
                                                headers |-> AuthHeaders(token)] })
    /\ lastOp' = Op("deleteConfirm", "")
    /\ UNCHANGED << route, pubVars, staleLoads, token, loginForm, isAuthenticating,
                    loginError, loginInfo, isLoadingPlaces, placesError, editingPlace,
                    form, isSaving, loginReq, loadReq, submitReq >>
    /\ AdminEffects(None)

\* handleDelete after its await, response ok: the closure's editingPlace is the
\* place handed to handleDelete, so resetForm() always runs and its
\* setStatusMessage(null) is the last one
DeleteSettleOk ==
    /\ route = "super-admin"
    /\ \E req \in BagToSet(deleteReqs) :
          /\ deleteReqs' = deleteReqs (-) SetToBag({ req })
          /\ lastOp' = Op("deleteSettle", "ok")
    /\ editingPlace' = None
    /\ form' = EMPTY_PLACE_FORM
    /\ statusMessage' = None
    /\ UNCHANGED << route, pubVars, staleLoads, token, loginForm, isAuthenticating,
                    loginError, loginInfo, places, isLoadingPlaces, placesError, isSaving,
                    loginReq, loadReq, submitReq >>
    /\ AdminEffects(selectionMarkerRef)

\* handleDelete after its await: the catch block
DeleteSettleFail ==
    /\ route = "super-admin"
    /\ \E req \in BagToSet(deleteReqs) :
          /\ deleteReqs' = deleteReqs (-) SetToBag({ req })
          /\ \E why \in CallFailures : lastOp' = Op("deleteSettle", why)
    /\ statusMessage' = Some(Msg.deletedLocally)
    /\ UNCHANGED << route, pubVars, staleLoads, token, loginForm, isAuthenticating,
                    loginError, loginInfo, places, isLoadingPlaces, placesError,
                    editingPlace, form, isSaving, loginReq, loadReq, submitReq >>
    /\ AdminEffects(selectionMarkerRef)

\* loadPlaces() after its awaits with `cancelled` set (the token changed or the
\* view was torn down)
StaleLoadPlaces ==
    /\ \E failed \in BOOLEAN :
          /\ places' = IfNotCancelled(TRUE,
                           IF failed THEN FALLBACK_PLACES ELSE << PlaceA, PlaceC >>, places)
          /\ placesError' = IfNotCancelled(TRUE,
                                IF failed THEN Some(Msg.placesFallback) ELSE placesError,
                                placesError)
    /\ isLoadingPlaces' = IfNotCancelled(TRUE, FALSE, isLoadingPlaces)
    /\ UNCHANGED << pubVars, token, loginForm, isAuthenticating, loginError, loginInfo,
                    editingPlace, form, statusMessage, isSaving, loginReq, loadReq,
                    submitReq, deleteReqs >>
    /\ AdminEffects(selectionMarkerRef)

\* the continuation of one of the cancelled loads runs
StaleLoadSettle ==
    /\ \E k \in staleLoads :
          /\ staleLoads' \in { staleLoads, staleLoads \ { k } }
          /\ IF k = "loadData" THEN StaleLoadData ELSE StaleLoadPlaces
    /\ lastOp' = Op("staleLoad", "")
    /\ UNCHANGED route

\* SuperAdminView is torn down: the loadPlaces cleanup sets `cancelled`, and what
\* the other calls in flight set afterwards is state of a component that no longer
\* exists
AdminUnmounts ==
    /\ staleLoads' = staleLoads \cup (IF IsSome(loadReq) THEN { "loadPlaces" } ELSE { })
    /\ token' = AdminInitialState.token
    /\ loginForm' = AdminInitialState.loginForm
    /\ isAuthenticating' = AdminInitialState.isAuthenticating
    /\ loginError' = AdminInitialState.loginError
    /\ loginInfo' = AdminInitialState.loginInfo
    /\ places' = AdminInitialState.places
    /\ isLoadingPlaces' = AdminInitialState.isLoadingPlaces
    /\ placesError' = AdminInitialState.placesError
    /\ editingPlace' = AdminInitialState.editingPlace
    /\ form' = AdminInitialState.form
    /\ statusMessage' = AdminInitialState.statusMessage
    /\ isSaving' = AdminInitialState.isSaving
    /\ mapRef' = AdminInitialState.mapRef
    /\ markersRef' = AdminInitialState.markersRef
    /\ selectionMarkerRef' = AdminInitialState.selectionMarkerRef
    /\ loginReq' = AdminInitialState.loginReq
    /\ loadReq' = AdminInitialState.loadReq
    /\ submitReq' = AdminInitialState.submitReq
    /\ deleteReqs' = AdminInitialState.deleteReqs

\* hashchange away from '#/super-admin': SuperAdminView unmounts
AdminUnmount ==
    /\ route = "super-admin"
    /\ route' = "public"
    /\ AdminUnmounts
    /\ lastOp' = Op("navigate", "")
    /\ UNCHANGED pubVars

\* "Volver al mapa publico" (onBack): SuperAdminView unmounts and a fresh
\* PublicExplorer mounts
OnBack ==
    /\ route = "super-admin"
    /\ route' = "public"
    /\ AdminUnmounts
    /\ PublicMounts
    /\ lastOp' = Op("navigate", "")

\* hashchange to '#/super-admin': a fresh SuperAdminView renders the login card and
\* its effects run; the map container is not rendered, there is no token
AdminMount ==
    /\ route = "public"
    /\ route' = "super-admin"
    /\ mapRef' = AdminMapEffect(IsSome(token), mapRef)
    /\ lastOp' = Op("navigate", "")
    /\ UNCHANGED << pubVars, staleLoads, token, loginForm, isAuthenticating, loginError,
                    loginInfo, places, isLoadingPlaces, placesError, editingPlace, form,
                    statusMessage, isSaving, markersRef, selectionMarkerRef, loginReq,
                    loadReq, submitReq, deleteReqs >>

----------------------------------------------------------------------------
(* Specifications *)

\* the public explorer, from page load on either route; SuperAdminView stays as
\* mounted
PublicInit ==
    /\ route \in { "public", "super-admin" }
    /\ IF route = "public" THEN PublicIs(PublicMountedState) ELSE PublicIs(PublicUnmountedState)
    /\ AdminInitial
    /\ staleLoads = { }
    /\ lastOp = Op("init", "")

PublicNext ==
    \/ PublicLoadOk
    \/ PublicLoadFail
    \/ SetQ
    \/ Focus
    \/ PublicUnmount
    \/ PublicMount
    \/ StaleLoadSettle

PublicSpec == PublicInit /\ [][PublicNext]_vars

\* the administrative surface, from page load on either route; PublicExplorer
\* stays as unmounted
AdminInit ==
    /\ route \in { "public", "super-admin" }
    /\ PublicIs(PublicUnmountedState)
    /\ AdminInitial
    /\ staleLoads = { }
    /\ lastOp = Op("init", "")

\* the operator signs in with the demonstration pair and the login call fails
AdminNext ==
    \/ AdminMount
    \/ AdminUnmount
    \/ LoginChange({ DemoEmail })
    \/ LoginSubmit
    \/ LoginSettleFail
    \/ Logout
    \/ LoadPlacesOk
    \/ LoadPlacesFail
    \/ StaleLoadSettle
    \/ FocusPlace
    \/ ResetForm
    \/ FormChange
    \/ SubmitRejected
    \/ SubmitIssue
    \/ SubmitSettleOk
    \/ SubmitSettleFail
    \/ DeleteDeclined
    \/ DeleteConfirm
    \/ DeleteSettleOk
    \/ DeleteSettleFail

AdminSpec == AdminInit /\ [][AdminNext]_vars

\* the session alone, with any credentials: login, the catalog load that follows
\* it, logout and the route change
SessionNext ==
    \/ AdminMount
    \/ AdminUnmount
    \/ LoginChange(EmailInputs)
    \/ LoginSubmit
    \/ LoginSettleOk
    \/ LoginSettleFail
    \/ Logout
    \/ LoadPlacesOk
    \/ LoadPlacesFail
    \/ StaleLoadSettle

SessionSpec == AdminInit /\ [][SessionNext]_vars

\* the gateway calls of the administrative surface across sessions: the login
\* call succeeds or fails, so that sessions differ in their token, and the drafts
\* submitted are those focus-for-edit fills in
CallsNext ==
    \/ AdminMount
    \/ AdminUnmount
    \/ LoginChange({ DemoEmail })
    \/ LoginSubmit
    \/ LoginSettleOk
    \/ LoginSettleFail
    \/ Logout
    \/ LoadPlacesOk
    \/ LoadPlacesFail
    \/ StaleLoadSettle
    \/ FocusPlace
    \/ ResetForm
    \/ SubmitRejected
    \/ SubmitIssue
    \/ SubmitSettleOk
    \/ SubmitSettleFail
    \/ DeleteDeclined
    \/ DeleteConfirm
    \/ DeleteSettleOk
    \/ DeleteSettleFail

CallsSpec == AdminInit /\ [][CallsNext]_vars

\* a login call in flight settles: fetch resolves or rejects
LoginSettles == LoginSettleOk \/ LoginSettleFail

\* a create/update call in flight settles: fetch resolves or rejects
SubmitSettles == SubmitSettleOk \/ SubmitSettleFail

\* the gateway calls of the administrative surface, every login call and every
\* create/update call in flight settling in the end
SettleSpec ==
    AdminInit /\ [][CallsNext]_vars /\ WF_vars(LoginSettles) /\ WF_vars(SubmitSettles)

\* both views and the route between them: the public explorer, and the session of
\* the administrative surface with the catalog load that follows a login
AppNext ==
    \/ PublicLoadOk
    \/ PublicLoadFail
    \/ SetQ
    \/ Focus
    \/ PublicUnmount
    \/ OnBack
    \/ StaleLoadSettle
    \/ LoginChange(EmailInputs)
    \/ LoginSubmit
    \/ LoginSettleOk
    \/ LoginSettleFail
    \/ Logout
    \/ LoadPlacesOk
    \/ LoadPlacesFail

AppSpec == PublicInit /\ [][AppNext]_vars

----------------------------------------------------------------------------
(* Claims *)

Keys(its) == { KeyOf(its[i]) : i \in 1..Len(its) }
Ids(list) == { list[i].id : i \in 1..Len(list) }
View == Items(artisans, pubPlaces, q)
Attached == { h \in DOMAIN markerObjs : markerObjs[h].attached }

\* C1: in the public explorer, once the healing step that follows a change of the
\* filtered view has run, the focused item, if any, has a composite key (kind, id)
\* that is in the filtered view.
C1_FocusedKeyInView ==
    IsSome(selectedItem) => KeyOf(Get(selectedItem)) \in Keys(View)

\* C1 witness: an item is still focused after a query change narrowed the view
C1_Witness ==
    /\ lastOp.op = "setQ"
    /\ IsSome(selectedItem)
    /\ Len(View) < Len(artisans) + Len(pubPlaces)

\* a draft's values as an entry of the place list carries them
Carries(p, payload) ==
    /\ p.name = payload.name
    /\ p.description = payload.description
    /\ p.type = payload.type
    /\ p.lat = payload.lat
    /\ p.lng = payload.lng
    /\ p.photo_url = payload.photo_url

\* C2: once the gateway call of a create or update settles, whatever the outcome
\* and whatever admin events came between, the local place list holds an entry
\* with the submitted values (stated for a session that is still the one the call
\* was issued in).
C2_MutationReflected ==
    [][(lastOp'.op = "submitSettle" /\ token' = Get(submitReq).token)
         => \E i \in 1..Len(places') : Carries(places'[i], Get(submitReq).payload)]_vars

\* C3: every marker a view adds to its map is removed exactly once, and before the
\* map is disposed: none is removed twice or after the disposal, and none is left
\* on a map that was torn down.
C3_RemovedOnceBeforeDispose ==
    \A h \in DOMAIN markerObjs :
        /\ markerObjs[h].removes <= 1
        /\ markerObjs[h].late = 0
        /\ ~IsSome(mapInstance) => markerObjs[h].removes = 1

\* C4: in the public explorer, when the map exists and every item of the filtered
\* view has finite coordinates, the markers on the map are as many as the items
\* and their keys are the view's composite keys.
C4_MarkersMatchView ==
    (IsSome(mapInstance)
       /\ \A i \in 1..Len(View) : IsFinite(View[i].lat) /\ IsFinite(View[i].lng))
    => /\ Cardinality(Attached) = Len(View)
       /\ { markerObjs[h].key : h \in Attached } = Keys(View)

\* C4 witness: a reconcile pass after a query change left two or more markers
C4_Witness ==
    /\ lastOp.op = "setQ"
    /\ IsSome(mapInstance)
    /\ Len(View) >= 2
    /\ \A i \in 1..Len(View) : IsFinite(View[i].lat) /\ IsFinite(View[i].lng)
    /\ Cardinality(Attached) = Len(View)

\* C5: the ids of the admin view's place list are pairwise distinct at all times.
C5_DistinctIds ==
    \A i, j \in 1..Len(places) : i # j => places[i].id # places[j].id

\* C6: a submit whose name is empty after trimming, or whose latitude or longitude
\* is absent, issues no call, sets a message and leaves the draft, the editing
\* target and the place list as they were; every POST/PUT issued carries a
\* non-empty name and both coordinates.
C6_InvalidDraftNotSubmitted ==
    [][/\ (/\ lastOp'.op \in { "submitRejected", "submitIssue" }
           /\ \/ Trim(form.name) = << >>
              \/ form.lat = Absent
              \/ form.lng = Absent)
          => /\ submitReq' = submitReq
             /\ IsSome(statusMessage')
             /\ form' = form
             /\ editingPlace' = editingPlace
             /\ places' = places
       /\ (IsSome(submitReq') /\ submitReq' # submitReq)
          => /\ Get(submitReq').payload.name # << >>
             /\ Get(submitReq').payload.lat # Absent
             /\ Get(submitReq').payload.lng # Absent]_vars

\* C6 witness: a submit was rejected for a name that consists of blanks
C6_Witness ==
    /\ lastOp.op = "submitRejected"
    /\ form.name = << " " >>
    /\ statusMessage = Some(Msg.nameRequired)
    /\ ~IsSome(submitReq)

\* C7: once the operator has confirmed the deletion of the place with id k, the
\* place list holds no entry with id k and the admin map no catalog marker for it,
\* and the answer to the DELETE call, whatever it is, leaves the list and the
\* markers as they are.
C7_DeletedLocally ==
    [][/\ lastOp'.op = "deleteConfirm"
          => /\ Get(editingPlace).id \notin Ids(places')
             /\ Get(editingPlace).id \notin Ids(markersRef')
       /\ lastOp'.op = "deleteSettle"
          => /\ places' = places
             /\ markersRef' = markersRef]_vars

\* C7 witness: a confirmed deletion took one of two places out of the list
C7_Witness ==
    /\ lastOp.op = "deleteConfirm"
    /\ IsSome(editingPlace)
    /\ Get(editingPlace).id \notin Ids(places)
    /\ Len(places) = 1
    /\ BagCardinality(deleteReqs) = 1

\* C8: a declined confirmation changes nothing (no DELETE call, the place list,
\* draft, editing target, status message and placement marker as before), and a
\* DELETE call is only issued by a confirmed deletion.
C8_DeclinedDeleteDoesNothing ==
    [][/\ lastOp'.op = "deleteDeclined"
          => UNCHANGED << deleteReqs, places, form, editingPlace, statusMessage,
                          selectionMarkerRef >>
       /\ BagCardinality(deleteReqs') > BagCardinality(deleteReqs)
          => lastOp'.op = "deleteConfirm"]_vars

\* C8 witness: the confirmation was declined while a listed place was being edited
C8_Witness ==
    /\ lastOp.op = "deleteDeclined"
    /\ IsSome(editingPlace)
    /\ Get(editingPlace).id \in Ids(places)
    /\ deleteReqs = EmptyBag

\* C9: the demonstration pair yields the demo-token session only when the login
\* call itself fails; answered with a response that is not ok, the login ends
\* anonymous with an error.
C9_DemoOnlyWhenCallFails ==
    (lastOp.op = "loginSettle" /\ lastOp.outcome = "not ok")
    => /\ token = None
       /\ IsSome(loginError)

\* C10: logout sets the session to absent, empties the place list, resets the
\* draft and clears the editing target; the view is anonymous.
C10_LogoutClears ==
    lastOp.op = "logout"
    => /\ token = None
       /\ places = << >>
       /\ form = EMPTY_PLACE_FORM
       /\ editingPlace = None
       /\ ~isAuthenticating

\* C10 witness: the operator logged out while a submit of the session was in flight
C10_Witness ==
    /\ lastOp.op = "logout"
    /\ token = None
    /\ IsSome(submitReq)
    /\ Get(submitReq).method = "PUT"

\* the bearer header of the session `tok`
Bearer(tok) == Some([Authorization |-> << "Bearer", Get(tok) >>])

\* C11: no admin gateway call (GET /places, POST /places, PUT /places/{id},
\* DELETE /places/{id}) is issued while the session is absent, and each call
\* issued carries the bearer token of the session current when it is issued.
C11_CallsCarrySessionToken ==
    [][/\ (IsSome(loadReq') /\ loadReq' # loadReq)
          => IsSome(token') /\ Get(loadReq').headers = Bearer(token')
       /\ (IsSome(submitReq') /\ submitReq' # submitReq)
          => IsSome(token') /\ Get(submitReq').headers = Bearer(token')
       /\ \A r \in BagToSet(deleteReqs') :
             CopiesIn(r, deleteReqs') > CopiesIn(r, deleteReqs)
             => IsSome(token') /\ r.headers = Bearer(token')]_vars

\* C11 witness: a PUT was issued in the demonstration session while a DELETE
\* issued in an earlier session, under the gateway's token, is in flight
C11_Witness ==
    /\ lastOp.op = "submitIssue"
    /\ token = Some("demo-local-token")
    /\ Get(submitReq).headers = Bearer(token)
    /\ \E r \in BagToSet(deleteReqs) : r.headers = Bearer(Some("server-token"))

\* C12: whenever the public catalog load fails (a rejected call, a response of
\* either endpoint that is not ok, or a body that does not parse), the catalog is
\* exactly the fallback dataset, one artisan and one place, and a warning is
\* shown; the view is not left without data.
C12_LoadFailureShowsFallback ==
    (lastOp.op = "publicLoad" /\ lastOp.outcome # << "ok", "ok" >>)
    => /\ Len(artisans) = 1
       /\ artisans[1] = Item(1, FbArtisanName, FbArtisanDesc, FbArtisanCat, << >>,
                             "20.0568", "-99.3391")
       /\ Len(pubPlaces) = 1
       /\ pubPlaces[1] = Item(1, FbPlaceName, FbPlaceDesc, << >>, FbPlaceType,
                              "20.0624", "-99.3374")
       /\ IsSome(error)
       /\ pubLoad = "done"
       /\ Len(Items(artisans, pubPlaces, << >>)) = 2

\* C12 witness: the artisans endpoint answered with a catalog and the places
\* endpoint with a response that is not ok
C12_Witness ==
    /\ lastOp.op = "publicLoad"
    /\ lastOp.outcome = << "ok", "not ok" >>
    /\ IsSome(error)
    /\ Len(artisans) = 1

\* C13: the late result of a catalog load whose view was torn down, or, for the
\* admin load, whose session changed, changes no state: the catalog lists, the
\* error and warning messages and the loading flag stay as they were.
C13_LateLoadResultDiscarded ==
    [][lastOp'.op = "staleLoad"
         => UNCHANGED << artisans, pubPlaces, error, places, placesError,
                         isLoadingPlaces, selectedItem, markerObjs, token >>]_vars

\* C13 witness: a cancelled load settled while a later session's own load is
\* still in flight
C13_Witness ==
    /\ lastOp.op = "staleLoad"
    /\ route = "super-admin"
    /\ IsSome(token)
    /\ IsSome(loadReq)
    /\ isLoadingPlaces

\* the catalog: the artisans followed by the places, each tagged with its kind
Catalog == Tagged(artisans, "Artesano") \o Tagged(pubPlaces, "Lugar")

\* the category of an artisan, the type of a place
CategoryOrType(e) == IF e.kind = "Artesano" THEN e.category ELSE e.type

\* `text` contains `query`, letter case apart
ContainsAnyCase(text, query) ==
    \E i \in 0..(Len(text) - Len(query)) :
        \A j \in 1..Len(query) : Lower(text[i + j]) = Lower(query[j])

\* v is c with some entries left out, the others in their order
IsSubsequence(v, c) ==
    \E f \in [1..Len(v) -> 1..Len(c)] :
        /\ \A k \in 1..Len(v) : v[k] = c[f[k]]
        /\ \A k \in 1..(Len(v) - 1) : f[k] < f[k + 1]

\* C14: for every catalog (artisans, then places, each tagged with its kind) and
\* query, the filtered view is a subsequence of the catalog in the original
\* order; an entry is in it if and only if its name, description or
\* category/type contains the query, letter case apart; for the empty query the
\* view is the catalog.
C14_FilterIsMatchingSubsequence ==
    /\ IsSubsequence(View, Catalog)
    /\ \A i \in 1..Len(Catalog) :
          (\E k \in 1..Len(View) : View[k] = Catalog[i])
          <=> \/ ContainsAnyCase(Catalog[i].name, q)
              \/ ContainsAnyCase(Catalog[i].description, q)
              \/ ContainsAnyCase(CategoryOrType(Catalog[i]), q)
    /\ q = << >> => View = Catalog

\* C14 witness: the query "b" keeps an artisan and, through its type "B", a place,
\* and leaves another entry out
C14_Witness ==
    /\ q = << "b" >>
    /\ Len(View) < Len(Catalog)
    /\ \E k \in 1..Len(View) : View[k].kind = "Lugar" /\ View[k].type = << "B" >>
    /\ \E k \in 1..Len(View) : View[k].kind = "Artesano"

\* C15: a reconcile pass on a view whose keys and item contents equal those of
\* the view reconciled before adds no marker to the map and removes none from it.
C15_ReconcileIdempotent ==
    [][(/\ lastOp'.op \in { "setQ", "publicLoad" }
        /\ IsSome(mapInstance)
        /\ Items(artisans', pubPlaces', q') = Items(artisans, pubPlaces, q))
       => /\ { h \in DOMAIN markerObjs' : markerObjs'[h].attached } = Attached
          /\ \A h \in Attached : markerObjs'[h].removes = markerObjs[h].removes]_vars

\* C17: each focus request moves the camera at most once, to the focused item's
\* coordinates, and the transition back to no selection that follows a query
\* change excluding the focused item does not move the camera.
C17_CameraMovesOncePerFocus ==
    [][/\ lastOp'.op = "focus"
          => /\ flyTos' <= 1
             /\ IsSome(selectedItem')
             /\ (IsFinite(Get(selectedItem').lat) /\ IsFinite(Get(selectedItem').lng))
                => camera'.center = << Get(selectedItem').lng, Get(selectedItem').lat >>
       /\ (lastOp'.op = "setQ" /\ IsSome(selectedItem) /\ ~IsSome(selectedItem'))
          => flyTos' = 0 /\ camera' = camera]_vars

\* C17 witness: a query change dropped the selection and the camera still shows
\* the item that had been focused
C17_Witness ==
    /\ lastOp.op = "setQ"
    /\ ~IsSome(selectedItem)
    /\ camera.zoom = "15"
    /\ \E i \in 1..Len(Catalog) :
          /\ camera.center = << Catalog[i].lng, Catalog[i].lat >>
          /\ KeyOf(Catalog[i]) \notin Keys(View)

\* C18: in each view, once the view's map container is laid out (in the admin
\* view: once there is a session and the admin layout is rendered), the view's
\* Map Engine instance exists.
C18_MapExistsOnceLaidOut ==
    /\ route = "public" => IsSome(mapInstance)
    /\ AdminLayoutRendered => IsSome(mapRef)

\* C19: when the admin place-catalog load that follows authentication fails, the
\* session stays authenticated with the same token, the place list becomes the
\* local fallback dataset, a warning is set and the loading flag is cleared.
C19_AdminLoadFailureKeepsSession ==
    [][(lastOp'.op = "loadPlaces" /\ lastOp'.outcome # "ok")
       => /\ IsSome(token)
          /\ token' = token
          /\ Get(loadReq).headers = Bearer(token)
          /\ places' = << Item(1, FbPlaceName, FbPlaceDesc, << >>, FbPlaceType,
                               "20.0624", "-99.3374") >>
          /\ IsSome(placesError')
          /\ ~isLoadingPlaces']_vars

\* C19 witness: the load of a session the gateway granted was answered with a
\* response that is not ok
C19_Witness ==
    /\ lastOp.op = "loadPlaces"
    /\ lastOp.outcome = "not ok"
    /\ token = Some("server-token")
    /\ Len(places) = 1
    /\ placesError = Some(Msg.placesFallback)
    /\ ~isLoadingPlaces

\* what stands in the way of a create: the admin map is never there to be
\* clicked, a draft without editing target has no coordinates, and so every
\* call handleSubmit issues is a PUT
CreateIsNeverIssued ==
    /\ ~IsSome(mapRef)
    /\ ~IsSome(editingPlace) => (form.lat = Absent /\ form.lng = Absent)
    /\ IsSome(submitReq) => Get(submitReq).method = "PUT"

C21_NonFiniteItemsSkipped ==
    IsSome(mapInstance)
    => /\ \A h \in Attached :
             IsFinite(markerObjs[h].lat) /\ IsFinite(markerObjs[h].lng)
       /\ \A i \in 1..Len(View) :
             (IsFinite(View[i].lat) /\ IsFinite(View[i].lng))
             => \E h \in Attached : markerObjs[h].key = KeyOf(View[i])

\* C22: the authenticating flag is set only while a login call is in flight and
\* the saving flag only while a create/update call is in flight; the step that
\* settles the call clears the flag, whatever the outcome; a set flag is cleared
\* in the end; and while the saving flag is set no create/update call is started.
C22_FlagsClearWhenCallsSettle ==
    /\ [](isAuthenticating => IsSome(loginReq))
    /\ [](isSaving => IsSome(submitReq))
    /\ [][(IsSome(loginReq) /\ loginReq' = None) => ~isAuthenticating']_vars
    /\ [][(IsSome(submitReq) /\ submitReq' = None) => ~isSaving']_vars
    /\ [][isSaving => (submitReq' = submitReq \/ submitReq' = None)]_vars
    /\ (isAuthenticating ~> ~isAuthenticating)
    /\ (isSaving ~> ~isSaving)

\* in a session the gateway opened, a create/update call has just failed and
\* neither flag is set
C22_Witness ==
    /\ lastOp.op = "submitSettle"
    /\ lastOp.outcome \in CallFailures
    /\ IsSome(token)
    /\ isAuthenticating = FALSE
    /\ isSaving = FALSE
    /\ IsSome(loginInfo) /\ Get(loginInfo) = Msg.loginOk

\* C23: whenever there is no session token the local place list is empty, the
\* draft is the empty draft and there is no editing target, also after the answer
\* to a call that was in flight at logout has arrived.
C23_NoSessionNoLocalData ==
    ~IsSome(token)
    => /\ places = << >>
       /\ form = EMPTY_PLACE_FORM
       /\ editingPlace = None

\* the answer to an update issued before a logout has just arrived, the operator
\* still logged out
C23_Witness ==
    /\ route = "super-admin"
    /\ ~IsSome(token)
    /\ lastOp.op = "submitSettle"

\* the answer to a delete issued before a logout has just arrived, the operator
\* still logged out
C23_LateDeleteAnswer ==
    /\ route = "super-admin"
    /\ ~IsSome(token)
    /\ lastOp.op = "deleteSettle"

\* no create, update or delete call is in flight
NoMutationInFlight == ~IsSome(submitReq) /\ deleteReqs = EmptyBag

\* C24: once a delete has settled, by success or by failure, with no other
\* mutation in flight, an editing target that is set has its id in the local
\* place list: the deleted place is not the editing target.
C24_SettledDeleteClearsTarget ==
    (lastOp.op = "deleteSettle" /\ IsSome(editingPlace) /\ NoMutationInFlight)
    => Get(editingPlace).id \in Ids(places)

\* C24, in general: whenever an editing target is set and no mutation is in
\* flight, the local place list holds a place with the target's id.
C24_EditingTargetIsListed ==
    (IsSome(editingPlace) /\ NoMutationInFlight)
    => Get(editingPlace).id \in Ids(places)

\* C24, the submit that follows: an update call issued while no mutation is in
\* flight is for a place whose id is in the local place list.
C24_UpdateOfListedPlace ==
    [][(NoMutationInFlight /\ IsSome(submitReq') /\ Get(submitReq').method = "PUT")
       => Get(Get(submitReq').target).id \in Ids(places)]_vars

====
